---------------------------- MODULE Spec2Model ----------------------------
(***************************************************************************)
(* A model of the Kalshi trading assistant: the market filter of api3.py,  *)
(* the threshold rules of bot3.py and the poll cycle of assistant3.py      *)
(* (candle aggregation and the auto-trading order loop).                   *)
(*                                                                         *)
(* Prices are counted in hundredths (0.30 is 30), times in minutes.        *)
(* The script of assistant3.py is run top to bottom once per poll cycle    *)
(* (a Streamlit rerun); only st.session_state (candles, positions,         *)
(* cumulative_pnl) lives across cycles, the sidebar is read again and the  *)
(* bot is built again in every cycle.                                      *)
(*                                                                         *)
(* Four specifications share the variables:                                *)
(*   Spec         the poll cycle: sidebar, market fetch, order loop        *)
(*   SpecCandles  the poll cycle's candle step, update_candles             *)
(*   SpecFilter   fetch_hourly_markets applied to a fetched document       *)
(*   SpecExit     should_exit_trade applied to prices and thresholds       *)
(* The candle step and the order loop work on disjoint session state, so   *)
(* each is explored with the other's state held fixed.                     *)
(***************************************************************************)
EXTENDS Integers, Sequences, FiniteSets

VARIABLES
    pc,              \* position of the script within the poll cycle
    bot,             \* the KalshiBot built from the sidebar in this cycle
    auto_trading,    \* the sidebar's "Enable Auto-Trading" box, this cycle
    n_markets,       \* len(all_markets), the list fetched in this cycle
    idx,             \* how many markets of all_markets the order loop has taken
    market,          \* the loop variable: the market taken last
    call,            \* the place_trade call made for it, or NoCall
    n_calls,         \* how many place_trade calls this cycle has made
    notice,          \* the halt message auto_trade_logic wrote this cycle
    positions,       \* st.session_state.positions: ticker -> Position
    cumulative_pnl,  \* st.session_state.cumulative_pnl
    halt_seen,       \* history: some cycle so far began with the halt condition
    first_halt,      \* history: whether the first cycle began with it
    candles,         \* st.session_state.candles, the rows of the DataFrame
    chart_interval,  \* the sidebar's candle interval, this cycle (minutes)
    now,             \* the wall clock (minutes)
    price,           \* what fetch_current_price returned this cycle
    data,            \* the document fetch_event_data returned
    hours,           \* fetch_hourly_markets' window
    fresult,         \* how fetch_hourly_markets ended, and its list
    current_price,   \* should_exit_trade's arguments and the bot's thresholds
    entry_price,
    exit_price_profit,
    exit_price_loss,
    exit_result      \* what should_exit_trade returned

vars == <<pc, bot, auto_trading, n_markets, idx, market, call, n_calls, notice, positions,
          cumulative_pnl, halt_seen, first_halt, candles, chart_interval, now,
          price, data, hours, fresult, current_price, entry_price,
          exit_price_profit, exit_price_loss, exit_result>>

tradeVars == <<bot, auto_trading, n_markets, idx, market, call, n_calls, notice, positions,
               cumulative_pnl, halt_seen, first_halt>>
candleVars == <<candles, chart_interval, now, price>>
filterVars == <<data, hours, fresult>>
exitVars == <<current_price, entry_price, exit_price_profit, exit_price_loss,
              exit_result>>

Max(a, b) == IF a >= b THEN a ELSE b
Min(a, b) == IF a <= b THEN a ELSE b
Last(s) == s[Len(s)]
Front(s) == SubSeq(s, 1, Len(s) - 1)
Take(s, k) == [i \in 1..Min(k, Len(s)) |-> s[i]]
Drop(s, k) == [i \in 1..(Len(s) - Min(k, Len(s))) |-> s[i + Min(k, Len(s))]]

(***************************************************************************)
(* Bounds of the model.                                                    *)
(***************************************************************************)
MaxMarkets == 2
MaxCandles == 2
MaxClock == 5
MaxRecords == 2

(***************************************************************************)
(* bot3.py: the decision engine.                                           *)
(***************************************************************************)
should_enter_trade(b, p) ==
    b.entry_price_low <= p /\ p <= b.entry_price_high

should_exit_trade_loss_first(p, e, profit, loss) ==
    IF p <= loss THEN "loss"
    ELSE IF p >= profit THEN "profit"
    ELSE ""

should_exit_trade(p, e, profit, loss) ==
    IF p >= profit THEN "profit"
    ELSE IF p <= loss THEN "loss"
    ELSE ""


(***************************************************************************)
(* assistant3.py: the sidebar and the session state.                       *)
(***************************************************************************)
EntryPriceLow == 30
EntryPriceHigh == 80
TradeSize == 10
ProfitGoals == {0, 100}
MaxDrawdowns == {0, 50}

\* The bots the sidebar can configure: KalshiBot(...) keeps its arguments.
Bots ==
    [entry_price_low : {EntryPriceLow}, entry_price_high : {EntryPriceHigh},
     trade_size : {TradeSize}, profit_goal : ProfitGoals,
     max_drawdown : MaxDrawdowns]

DefaultBot ==
    [entry_price_low |-> EntryPriceLow, entry_price_high |-> EntryPriceHigh,
     trade_size |-> TradeSize, profit_goal |-> 100, max_drawdown |-> 50]

\* market.get("ticker") of a record without a ticker (None and "" are both
\* falsy), market.get("yes_bid") of a record without that bid.
NoTicker == ""
NoBid == -1
Tickers == {"A", "B"}
BidValues == {29, 30, 40, 80}

Markets ==
    [ticker : Tickers \cup {NoTicker}, yes_bid : BidValues \cup {NoBid},
     no_bid : BidValues \cup {NoBid}]

\* The loop variable before the loop has taken a market.
NoMarket == [ticker |-> NoTicker, yes_bid |-> NoBid, no_bid |-> NoBid]

(***************************************************************************)
(* api3.py: place_trade.  The exchange or the network decides how the POST *)
(* ends: "ok" a 2xx answer with an order document, "ok_empty" a 2xx answer *)
(* whose JSON body is empty ({}), "http_error" a non-2xx status,           *)
(* "bad_body" a 2xx answer whose body is not JSON, "no_response" a         *)
(* connection error or timeout raised by session.post itself.              *)
(***************************************************************************)
Outcomes == {"ok", "ok_empty", "http_error", "bad_body", "no_response"}

\* Whether the name resp is bound when the except clause runs.
RespBound(outcome) == outcome # "no_response"

\* The try block returns resp.json(); every exception reaches the except
\* clause, which logs and then evaluates getattr(resp, 'text', ...): with
\* resp unbound that raises UnboundLocalError out of place_trade.
place_trade(outcome) ==
    CASE outcome = "ok" -> [kind |-> "return", value |-> "order_doc"]
      [] outcome = "ok_empty" -> [kind |-> "return", value |-> "empty_doc"]
      [] outcome \in {"http_error", "bad_body"} ->
            [kind |-> "return", value |-> "None"]
      [] OTHER ->
            IF RespBound(outcome)
            THEN [kind |-> "return", value |-> "None"]
            ELSE [kind |-> "raise", value |-> "UnboundLocalError"]

\* Python's truth value of what place_trade returned.
Truthy(value) == value = "order_doc"

(***************************************************************************)
(* assistant3.py: auto_trade_logic.                                        *)
(***************************************************************************)
ProfitGoalReached_strict(pnl, b) == pnl > b.profit_goal

ProfitGoalReached(pnl, b) == pnl >= b.profit_goal

DrawdownReached_strict(pnl, b) == pnl < -b.max_drawdown

DrawdownReached(pnl, b) == pnl <= -b.max_drawdown

NoChoice == [side |-> "none", price |-> NoBid]

\* The side chosen for a market when ties go to "no".
ChosenSide_no_on_tie(b, m) ==
    LET yes_bid == m.yes_bid
        no_bid == m.no_bid
        enter_yes == yes_bid # NoBid /\ should_enter_trade(b, yes_bid)
        enter_no == no_bid # NoBid /\ should_enter_trade(b, no_bid)
    IN  IF m.ticker = NoTicker \/ (yes_bid = NoBid /\ no_bid = NoBid)
        THEN NoChoice
        ELSE IF enter_yes /\ enter_no
             THEN IF yes_bid < no_bid
                  THEN [side |-> "yes", price |-> yes_bid]
                  ELSE [side |-> "no", price |-> no_bid]
             ELSE IF enter_yes THEN [side |-> "yes", price |-> yes_bid]
             ELSE IF enter_no THEN [side |-> "no", price |-> no_bid]
             ELSE NoChoice

\* Lines 134-161: chosen_side and chosen_price of one market, NoChoice when
\* the loop continues without an order.
ChosenSide(b, m) ==
    LET yes_bid == m.yes_bid
        no_bid == m.no_bid
        enter_yes == yes_bid # NoBid /\ should_enter_trade(b, yes_bid)
        enter_no == no_bid # NoBid /\ should_enter_trade(b, no_bid)
    IN  IF m.ticker = NoTicker \/ (yes_bid = NoBid /\ no_bid = NoBid)
        THEN NoChoice
        ELSE IF enter_yes /\ enter_no
             THEN IF yes_bid <= no_bid
                  THEN [side |-> "yes", price |-> yes_bid]
                  ELSE [side |-> "no", price |-> no_bid]
             ELSE IF enter_yes THEN [side |-> "yes", price |-> yes_bid]
             ELSE IF enter_no THEN [side |-> "no", price |-> no_bid]
             ELSE NoChoice

\* int(chosen_price * 100) on binary floats: for these hundredths the product
\* falls just below the integer and int() truncates it (0.29 * 100 is
\* 28.999999999999996).
FloatTruncated == {29, 57, 58}
PriceInCents(p) == IF p \in FloatTruncated THEN p - 1 ELSE p

NoCall == [action |-> "none"]

\* The keyword arguments of the place_trade call of lines 166-189, with how
\* the call ended and what it gave back.
TradeCall(b, m, choice, outcome) ==
    [action |-> "buy", side |-> choice.side, ticker |-> m.ticker,
     count |-> b.trade_size, order_type |-> "Market",
     yes_price |-> IF choice.side = "yes" THEN PriceInCents(choice.price) ELSE 0,
     no_price |-> IF choice.side = "no" THEN PriceInCents(choice.price) ELSE 0,
     sell_position_floor |-> 0,
     ended |-> place_trade(outcome).kind,
     returned |-> place_trade(outcome).value]

\* Lines 191-199: the Position is written only under "if order_response:".
RecordPosition(pos, ticker, choice, b, response) ==
    IF Truthy(response)
    THEN [t \in DOMAIN pos \cup {ticker} |->
            IF t = ticker
            THEN [side |-> choice.side, entry_price |-> choice.price,
                  quantity |-> b.trade_size]
            ELSE pos[t]]
    ELSE pos

\* The halt condition as the specification words it, for the history
\* variables and the properties below.
HaltConditionHolds(pnl, b) == pnl >= b.profit_goal \/ pnl <= -b.max_drawdown

\* Lines 23-52 of a rerun: the sidebar is read and the bot is built; the
\* session state is kept.  A rerun follows st.experimental_rerun() at the end
\* of a cycle, or the user's next interaction after an uncaught exception.
StartCycle ==
    /\ pc \in {"idle", "done", "crashed"}
    /\ \E b \in Bots, a \in BOOLEAN :
          /\ bot' = b
          /\ auto_trading' = a
          /\ halt_seen' = (halt_seen \/ (a /\ HaltConditionHolds(cumulative_pnl, b)))
          /\ first_halt' = IF first_halt = "unset"
                           THEN (IF HaltConditionHolds(cumulative_pnl, b)
                                 THEN "yes" ELSE "no")
                           ELSE first_halt
    /\ n_markets' = 0
    /\ idx' = 0
    /\ market' = NoMarket
    /\ call' = NoCall
    /\ n_calls' = 0
    /\ notice' = ""
    /\ pc' = "fetch"
    /\ UNCHANGED <<positions, cumulative_pnl>>
    /\ UNCHANGED <<candleVars, filterVars, exitVars>>

\* Lines 57-67: get_hourly_markets concatenates what fetch_hourly_markets
\* returns for the four series (an empty list for a failed fetch).  The
\* records of the list are drawn when the order loop reaches them.  A run in
\* which fetch_hourly_markets raises (SpecFilter) ends here, before any of
\* the steps below, and is not followed further.
GetHourlyMarkets ==
    /\ pc = "fetch"
    /\ \E n \in 0..MaxMarkets : n_markets' = n
    /\ pc' = "main"
    /\ UNCHANGED <<bot, auto_trading, idx, market, call, n_calls, notice,
                   positions, cumulative_pnl, halt_seen, first_halt>>
    /\ UNCHANGED <<candleVars, filterVars, exitVars>>

\* Lines 210-211 with the box unticked: auto_trade_logic is not called.
SkipAutoTrading ==
    /\ pc = "main"
    /\ ~auto_trading
    /\ pc' = "done"
    /\ UNCHANGED tradeVars
    /\ UNCHANGED <<candleVars, filterVars, exitVars>>

\* Lines 126-128.
HaltOnProfitGoal ==
    /\ pc = "main"
    /\ auto_trading
    /\ ProfitGoalReached(cumulative_pnl, bot)
    /\ notice' = "Profit goal reached! Stopping trades."
    /\ pc' = "done"
    /\ UNCHANGED <<bot, auto_trading, n_markets, idx, market, call, n_calls,
                   positions, cumulative_pnl, halt_seen, first_halt>>
    /\ UNCHANGED <<candleVars, filterVars, exitVars>>

\* Lines 129-131.
HaltOnDrawdown ==
    /\ pc = "main"
    /\ auto_trading
    /\ ~ProfitGoalReached(cumulative_pnl, bot)
    /\ DrawdownReached(cumulative_pnl, bot)
    /\ notice' = "Max drawdown reached! Stopping trades."
    /\ pc' = "done"
    /\ UNCHANGED <<bot, auto_trading, n_markets, idx, market, call, n_calls,
                   positions, cumulative_pnl, halt_seen, first_halt>>
    /\ UNCHANGED <<candleVars, filterVars, exitVars>>

\* Line 133 reached: the order loop starts.
EnterOrderLoop ==
    /\ pc = "main"
    /\ auto_trading
    /\ ~ProfitGoalReached(cumulative_pnl, bot)
    /\ ~DrawdownReached(cumulative_pnl, bot)
    /\ pc' = "loop"
    /\ UNCHANGED tradeVars
    /\ UNCHANGED <<candleVars, filterVars, exitVars>>

\* Lines 134-161 for the next market when the loop continues without an order.
SkipMarket ==
    /\ pc = "loop"
    /\ idx < n_markets
    /\ \E m \in Markets :
          /\ ChosenSide(bot, m) = NoChoice
          /\ market' = m
    /\ idx' = idx + 1
    /\ call' = NoCall
    /\ UNCHANGED <<pc, bot, auto_trading, n_markets, n_calls, notice, positions,
                   cumulative_pnl, halt_seen, first_halt>>
    /\ UNCHANGED <<candleVars, filterVars, exitVars>>

\* Lines 163-199 for the next market: one place_trade call; an exception it
\* raises is caught nowhere and ends the script run.
TradeMarket ==
    /\ pc = "loop"
    /\ idx < n_markets
    /\ \E m \in Markets, outcome \in Outcomes :
          LET choice == ChosenSide(bot, m)
              r == place_trade(outcome)
          IN  /\ choice # NoChoice
              /\ market' = m
              /\ call' = TradeCall(bot, m, choice, outcome)
              /\ IF r.kind = "raise"
                 THEN /\ pc' = "crashed"
                      /\ positions' = positions
                 ELSE /\ pc' = "loop"
                      /\ positions' = RecordPosition(positions, m.ticker,
                                                     choice, bot, r.value)
    /\ idx' = idx + 1
    /\ n_calls' = n_calls + 1
    /\ UNCHANGED <<bot, auto_trading, n_markets, notice, cumulative_pnl,
                   halt_seen, first_halt>>
    /\ UNCHANGED <<candleVars, filterVars, exitVars>>

\* The for loop of line 133 is exhausted.
EndOrderLoop ==
    /\ pc = "loop"
    /\ idx = n_markets
    /\ pc' = "done"
    /\ UNCHANGED tradeVars
    /\ UNCHANGED <<candleVars, filterVars, exitVars>>

(***************************************************************************)
(* assistant3.py: update_candles.                                          *)
(***************************************************************************)
\* fetch_current_price returned None.
NoPrice == -1
Prices == {8, 10, 12}
\* Two of the sidebar's candle intervals [1, 5, 15, 30, 60], in minutes.
Intervals == {1, 5}

\* Line 87: the row of a sample.
NewCandle(t, p) ==
    [time |-> t, open |-> p, high |-> p, low |-> p, close |-> p]

\* The last row rewritten without its high and low.
UpdatedCandle_close_only(c, p) == [c EXCEPT !.close = p]

\* Lines 96-99: the last row after a sample inside its bucket.
UpdatedCandle(c, p) ==
    [c EXCEPT !.high = Max(c.high, p), !.low = Min(c.low, p), !.close = p]

SameBucket_inclusive(delta, interval) == delta <= interval

\* Line 95: the sample still belongs to the last row's bucket.
SameBucket(delta, interval) == delta < interval

\* Lines 82-85: the price fetch failed, the function returns at once.  The
\* clock is read first; it never runs backwards.
CandlesFetchFailed ==
    /\ \E t \in now..MaxClock, i \in Intervals :
          /\ now' = t
          /\ chart_interval' = i
    /\ price' = NoPrice
    /\ UNCHANGED candles
    /\ UNCHANGED <<pc, tradeVars, filterVars, exitVars>>

\* Lines 88-89 and 102: the first sample becomes the only row.
CandlesFirst ==
    /\ candles = <<>>
    /\ \E t \in now..MaxClock, i \in Intervals, p \in Prices :
          /\ now' = t
          /\ chart_interval' = i
          /\ price' = p
          /\ candles' = <<NewCandle(t, p)>>
    /\ UNCHANGED <<pc, tradeVars, filterVars, exitVars>>

\* Lines 91-99 and 102: a sample inside the last row's bucket.
CandlesUpdateLast ==
    /\ candles # <<>>
    /\ \E t \in now..MaxClock, i \in Intervals, p \in Prices :
          /\ SameBucket(t - Last(candles).time, i)
          /\ now' = t
          /\ chart_interval' = i
          /\ price' = p
          /\ candles' = [candles EXCEPT ![Len(candles)] = UpdatedCandle(@, p)]
    /\ UNCHANGED <<pc, tradeVars, filterVars, exitVars>>

\* Lines 91-95 and 100-102: a sample after the last row's bucket.
CandlesAppend ==
    /\ candles # <<>>
    /\ Len(candles) < MaxCandles
    /\ \E t \in now..MaxClock, i \in Intervals, p \in Prices :
          /\ ~SameBucket(t - Last(candles).time, i)
          /\ now' = t
          /\ chart_interval' = i
          /\ price' = p
          /\ candles' = Append(candles, NewCandle(t, p))
    /\ UNCHANGED <<pc, tradeVars, filterVars, exitVars>>

(***************************************************************************)
(* api3.py: fetch_hourly_markets.  Times are minutes; a close_time string  *)
(* in ISO form is its wall-clock reading and its suffix: "Z", a numeric    *)
(* offset, or none.                                                        *)
(***************************************************************************)
FilterNow == 120
MinutesPerHour == 60

\* market.get("status", ""): a string, the default "" of a record without
\* the key, JSON null, or a JSON number.
Statuses ==
    {[kind |-> "absent"], [kind |-> "null"], [kind |-> "number"]}
      \cup [kind : {"str"}, text : {"open", "finalized", "FINALIZED"}]

\* market.get("close_time"): None for a record without the key, "", a string
\* that is no ISO time, a JSON number other than 0, or an ISO time.
WallTimes == {FilterNow, FilterNow + 30, FilterNow + 60, FilterNow + 90}
Suffixes == {"Z", "+01:00", ""}
CloseTimes ==
    {[kind |-> "absent"], [kind |-> "empty"], [kind |-> "garbage"],
     [kind |-> "number"]}
      \cup [kind : {"iso"}, wall : WallTimes, suffix : Suffixes]

Records == [status : Statuses, close_time : CloseTimes]

\* str.lower() on the status texts of the model.
Lower(text) == IF text = "FINALIZED" THEN "finalized" ELSE text

\* close_str.replace("Z", "+00:00") on an ISO string's suffix.
ReplaceZ(suffix) == IF suffix = "Z" THEN "+00:00" ELSE suffix

\* The UTC offset, in minutes, that fromisoformat reads from a suffix.
OffsetMinutes(suffix) ==
    CASE suffix = "+00:00" -> 0
      [] suffix = "+01:00" -> 60

\* datetime.fromisoformat(...): an aware time (its instant in UTC minutes), a
\* naive time, or ValueError.
FromIsoFormat(ct) ==
    IF ct.kind # "iso" THEN [kind |-> "ValueError"]
    ELSE IF ReplaceZ(ct.suffix) = "" THEN [kind |-> "naive", wall |-> ct.wall]
    ELSE [kind |-> "aware",
          instant |-> ct.wall - OffsetMinutes(ReplaceZ(ct.suffix))]

\* Lines 61-71: "True", "False", or the exception that leaves is_hourly.
\* None.lower() and (7).lower() raise AttributeError, as does
\* (7).replace(...); only ValueError is caught around fromisoformat, and
\* comparing the aware now with a naive close_time raises TypeError.
is_hourly(m, t, cutoff) ==
    IF m.status.kind \in {"null", "number"} THEN "AttributeError"
    ELSE IF m.status.kind = "str" /\ Lower(m.status.text) = "finalized"
    THEN "False"
    ELSE IF m.close_time.kind \in {"absent", "empty"} THEN "False"
    ELSE IF m.close_time.kind = "number" THEN "AttributeError"
    ELSE LET parsed == FromIsoFormat(m.close_time)
         IN  IF parsed.kind = "ValueError" THEN "False"
             ELSE IF parsed.kind = "naive" THEN "TypeError"
             ELSE IF t < parsed.instant /\ parsed.instant <= cutoff
                  THEN "True" ELSE "False"

\* Lines 73-82: the markets the loops visit, in order: data["markets"] when
\* the document has that key, else the markets of data["events"] in turn.
RECURSIVE Flatten(_)
Flatten(events) ==
    IF events = <<>> THEN <<>> ELSE Head(events) \o Flatten(Tail(events))

Scanned(d) ==
    IF d.has_markets THEN d.markets
    ELSE IF d.has_events THEN Flatten(d.events)
    ELSE <<>>

\* The loops of lines 75-82 over a list: the markets kept so far, until the
\* list ends or is_hourly raises.
RECURSIVE KeepHourly(_, _, _, _)
KeepHourly(ms, kept, t, cutoff) ==
    IF ms = <<>> THEN [kind |-> "return", list |-> kept]
    ELSE LET verdict == is_hourly(Head(ms), t, cutoff)
         IN  IF verdict = "True"
             THEN KeepHourly(Tail(ms), Append(kept, Head(ms)), t, cutoff)
             ELSE IF verdict = "False"
             THEN KeepHourly(Tail(ms), kept, t, cutoff)
             ELSE [kind |-> "raise", list |-> <<>>, error |-> verdict]

\* Lines 53-84.  fetch_event_data gave None or an empty document: [].
fetch_hourly_markets(d, t, h) ==
    IF d.falsy THEN [kind |-> "return", list |-> <<>>]
    ELSE KeepHourly(Scanned(d), <<>>, t, t + h * MinutesPerHour)

RECURSIVE ListsUpTo(_, _)
ListsUpTo(S, n) ==
    IF n = 0 THEN {<<>>}
    ELSE LET shorter == ListsUpTo(S, n - 1)
         IN  shorter \cup
               {Append(l, x) : l \in {k \in shorter : Len(k) = n - 1}, x \in S}

\* The documents fetch_event_data can hand over: None or {} (falsy), markets
\* under the top-level "markets" key, under "events[].markets", or both.
NoDocument ==
    [falsy |-> TRUE, has_markets |-> FALSE, markets |-> <<>>,
     has_events |-> FALSE, events |-> <<>>]

Documents(n) ==
    {NoDocument}
      \cup {[falsy |-> FALSE, has_markets |-> TRUE, markets |-> l,
             has_events |-> FALSE, events |-> <<>>] :
               l \in ListsUpTo(Records, n)}
      \cup {[falsy |-> FALSE, has_markets |-> FALSE, markets |-> <<>>,
             has_events |-> TRUE,
             events |-> <<Take(l, k), Drop(l, k)>>] :
               l \in ListsUpTo(Records, n), k \in {1}}
      \cup {[falsy |-> FALSE, has_markets |-> TRUE,
             markets |-> Take(l, 1), has_events |-> TRUE,
             events |-> <<Drop(l, 1)>>] :
               l \in ListsUpTo(Records, n)}

\* One call of fetch_hourly_markets on the document at hand.
FetchHourlyMarkets ==
    /\ pc = "call"
    /\ fresult' = fetch_hourly_markets(data, now, hours)
    /\ pc' = "called"
    /\ UNCHANGED <<data, hours>>
    /\ UNCHANGED <<tradeVars, candleVars, exitVars>>

(***************************************************************************)
(* bot3.py: should_exit_trade applied to a price.                          *)
(***************************************************************************)
\* Sidebar and price values in hundredths, with the defaults 0.15 and 0.90.
ExitPrices == {0, 15, 50, 90, 100}

ShouldExitTrade ==
    /\ pc = "call"
    /\ exit_result' = should_exit_trade(current_price, entry_price,
                                        exit_price_profit, exit_price_loss)
    /\ pc' = "called"
    /\ UNCHANGED <<current_price, entry_price, exit_price_profit,
                   exit_price_loss>>
    /\ UNCHANGED <<tradeVars, candleVars, filterVars>>

\* Values the variables of the other specifications rest at.
CandlesIdle ==
    /\ candles = <<>>
    /\ chart_interval = 5
    /\ now = 0
    /\ price = NoPrice

FilterIdle ==
    /\ data = NoDocument
    /\ hours = 1
    /\ fresult = [kind |-> "pending"]

ExitIdle ==
    /\ current_price = 0
    /\ entry_price = 0
    /\ exit_price_profit = 90
    /\ exit_price_loss = 15
    /\ exit_result = "pending"

TradeIdle ==
    /\ bot = DefaultBot
    /\ auto_trading = FALSE
    /\ n_markets = 0
    /\ idx = 0
    /\ market = NoMarket
    /\ call = NoCall
    /\ n_calls = 0
    /\ notice = ""
    /\ positions = <<>>
    /\ cumulative_pnl = 0
    /\ halt_seen = FALSE
    /\ first_halt = "unset"

\* Lines 36-41: the session state of a new session.
Init ==
    /\ pc = "idle"
    /\ TradeIdle
    /\ CandlesIdle
    /\ FilterIdle
    /\ ExitIdle

Next ==
    \/ StartCycle
    \/ GetHourlyMarkets
    \/ SkipAutoTrading
    \/ HaltOnProfitGoal
    \/ HaltOnDrawdown
    \/ EnterOrderLoop
    \/ SkipMarket
    \/ TradeMarket
    \/ EndOrderLoop

Spec == Init /\ [][Next]_vars

(***************************************************************************)
(* Properties of the poll cycle (Spec).                                    *)
(***************************************************************************)

C2_PlaceTradeNeverRaises ==
    /\ call # NoCall => call.ended = "return"
    /\ pc # "crashed"

\* The side the order loop takes for a market by the rule of C7: "none" when
\* no order is to be submitted.
C7_Expected(low, high, m) ==
    LET yes_ok == m.yes_bid # NoBid /\ low <= m.yes_bid /\ m.yes_bid <= high
        no_ok == m.no_bid # NoBid /\ low <= m.no_bid /\ m.no_bid <= high
    IN  IF m.ticker = NoTicker THEN "none"
        ELSE IF yes_ok /\ no_ok
             THEN (IF m.no_bid < m.yes_bid THEN "no" ELSE "yes")
        ELSE IF yes_ok THEN "yes"
        ELSE IF no_ok THEN "no"
        ELSE "none"

\* C7: for the market the order loop has just taken, a side qualifies iff its
\* bid is present and within [entry_price_low, entry_price_high]; with both
\* sides qualifying the lower bid is ordered and yes on equal bids, with one
\* that one, and with none (or no ticker) no order is submitted.
C7_SideSelection ==
    (idx > 0 /\ pc \in {"loop", "done", "crashed"}) =>
        LET expected == C7_Expected(bot.entry_price_low, bot.entry_price_high,
                                    market)
        IN  IF expected = "none"
            THEN call = NoCall
            ELSE /\ call # NoCall
                 /\ call.side = expected
                 /\ call.ticker = market.ticker

\* The claim's tie: yes_bid = no_bid = 0.40, both in range, and yes is ordered.
C7_Witness ==
    /\ idx > 0
    /\ market.yes_bid = 40
    /\ market.no_bid = 40
    /\ call # NoCall
    /\ call.side = "yes"

\* C8 as stated, for each market the order loop of a non-halted cycle takes:
\* a market with a qualifying side gets exactly one buy order of trade_size
\* contracts on the chosen side, the Position is recorded iff the order
\* succeeded and a failed order leaves the positions alone, and the loop goes
\* on so that every market of the fetched set is taken.
C8_OrdersAndPositions ==
    [][(pc = "loop" /\ idx' = idx + 1) =>
         LET m == market'
             expected == C7_Expected(bot.entry_price_low,
                                     bot.entry_price_high, m)
             succeeded == call' # NoCall /\ call'.returned = "order_doc"
         IN  /\ pc' = "loop"
             /\ IF expected = "none"
                THEN n_calls' = n_calls /\ positions' = positions
                ELSE /\ n_calls' = n_calls + 1
                     /\ call'.action = "buy"
                     /\ call'.side = expected
                     /\ call'.ticker = m.ticker
                     /\ call'.count = bot.trade_size
                     /\ IF succeeded
                        THEN /\ DOMAIN positions' = DOMAIN positions \cup {m.ticker}
                             /\ positions'[m.ticker] =
                                  [side |-> expected,
                                   entry_price |-> IF expected = "yes"
                                                   THEN m.yes_bid ELSE m.no_bid,
                                   quantity |-> bot.trade_size]
                             /\ \A t \in DOMAIN positions \ {m.ticker} :
                                  positions'[t] = positions[t]
                        ELSE positions' = positions]_vars

NextCandles ==
    \/ CandlesFetchFailed
    \/ CandlesFirst
    \/ CandlesUpdateLast
    \/ CandlesAppend

SpecCandles == Init /\ [][NextCandles]_vars

\* C5: every Candle of the sequence has high >= max(open, close) and
\* low <= min(open, close).
C5_CandleInvariant ==
    \A k \in 1..Len(candles) :
        /\ candles[k].high >= candles[k].open
        /\ candles[k].high >= candles[k].close
        /\ candles[k].low <= candles[k].open
        /\ candles[k].low <= candles[k].close

\* A Candle whose high and low were both moved away from its open and close
\* by samples inside its bucket, after a cycle whose price fetch failed.
C5_Witness ==
    /\ price = NoPrice
    /\ \E k \in 1..Len(candles) :
          /\ candles[k].high > candles[k].open
          /\ candles[k].high > candles[k].close
          /\ candles[k].low < candles[k].open
          /\ candles[k].low < candles[k].close

\* C6: a sample of price P at time T with bucket size N appends the Candle
\* {T, P, P, P, P} when the sequence is empty or T - last.time >= N, and
\* otherwise changes only the last Candle's high, low and close; the Candles
\* before the last never change, the sequence never shrinks, and a cycle
\* whose price fetch failed leaves the sequence as it was.
C6_CandleBucketing ==
    [][LET T == now'
           P == price'
           N == chart_interval'
       IN  IF P = NoPrice
           THEN candles' = candles
           ELSE IF candles = <<>> \/ T - Last(candles).time >= N
                THEN candles' = Append(candles,
                                       [time |-> T, open |-> P, high |-> P,
                                        low |-> P, close |-> P])
                ELSE /\ Len(candles') = Len(candles)
                     /\ Front(candles') = Front(candles)
                     /\ Last(candles').time = Last(candles).time
                     /\ Last(candles').open = Last(candles).open
                     /\ Last(candles').high = Max(Last(candles).high, P)
                     /\ Last(candles').low = Min(Last(candles).low, P)
                     /\ Last(candles').close = P]_vars

\* The claim's example: prices 10, 12, 8 inside one bucket gave the Candle
\* {open 10, high 12, low 8, close 8}, and a fourth price, sampled exactly one
\* bucket size after the Candle's time, opened a new Candle at that price.
C6_Witness ==
    /\ Len(candles) = 2
    /\ candles[1] = [time |-> 0, open |-> 10, high |-> 12, low |-> 8,
                     close |-> 8]
    /\ candles[2].time = chart_interval
    /\ candles[2].time = now
    /\ candles[2].open = price
    /\ candles[2].close = price

(***************************************************************************)
(* fetch_hourly_markets on a fetched document (SpecFilter).                *)
(***************************************************************************)
InitFilter ==
    /\ pc = "call"
    /\ TradeIdle
    /\ candles = <<>>
    /\ chart_interval = 5
    /\ price = NoPrice
    /\ now = FilterNow
    /\ hours = 1
    /\ data \in Documents(MaxRecords)
    /\ fresult = [kind |-> "pending"]
    /\ ExitIdle

NextFilter == FetchHourlyMarkets

SpecFilter == InitFilter /\ [][NextFilter]_vars

\* The filter as C3 words it: the status is not "finalized" in any case, the
\* close_time parses, and now < close_time <= now + hours.  A close_time
\* without an offset is read as UTC here.
C3_Qualifies(m, t, h) ==
    /\ ~(m.status.kind = "str"
         /\ m.status.text \in {"finalized", "FINALIZED"})
    /\ m.close_time.kind = "iso"
    /\ LET instant == m.close_time.wall
                        - (IF m.close_time.suffix = "+01:00" THEN 60 ELSE 0)
       IN  t < instant /\ instant <= t + h * 60

\* C3: the call returns exactly the markets of the fetched document that are
\* not finalized and close within (now, now + hours], in the document's order.
C3_FilterExact ==
    pc = "called" =>
        LET returned == IF fresult.kind = "return" THEN fresult.list ELSE <<>>
        IN  returned =
              SelectSeq(Scanned(data), LAMBDA m : C3_Qualifies(m, now, hours))

\* A record with a data-shape error: its close_time is missing, empty, no
\* string, unparseable or without a UTC offset, or its status is null or no
\* string.
C4_Malformed(m) ==
    \/ m.status.kind \in {"null", "number"}
    \/ m.close_time.kind \in {"absent", "empty", "garbage", "number"}
    \/ (m.close_time.kind = "iso" /\ m.close_time.suffix = "")

\* C4: whatever records the fetched document holds, the call returns, without
\* the records that have a data-shape error and with every other qualifying
\* record.
C4_ShapeErrorsNotFatal ==
    pc = "called" =>
        /\ fresult.kind = "return"
        /\ \A k \in 1..Len(fresult.list) : ~C4_Malformed(fresult.list[k])
        /\ fresult.list =
             SelectSeq(Scanned(data),
                       LAMBDA m : ~C4_Malformed(m)
                                    /\ C3_Qualifies(m, now, hours))

\* What the code does keep of C3: on a document none of whose scanned records
\* has a data-shape error that raises, the call returns exactly the filter.
C3_ExactWhenNothingRaises ==
    (pc = "called"
       /\ \A k \in 1..Len(Scanned(data)) :
             is_hourly(Scanned(data)[k], now, now + hours * 60)
                \in {"True", "False"})
      => /\ fresult.kind = "return"
         /\ fresult.list =
              SelectSeq(Scanned(data), LAMBDA m : C3_Qualifies(m, now, hours))

(***************************************************************************)
(* should_exit_trade on prices and thresholds (SpecExit).                  *)
(***************************************************************************)
InitExit ==
    /\ pc = "call"
    /\ TradeIdle
    /\ CandlesIdle
    /\ FilterIdle
    /\ current_price \in ExitPrices
    /\ entry_price \in ExitPrices
    /\ exit_price_profit \in ExitPrices
    /\ exit_price_loss \in ExitPrices
    /\ exit_result = "pending"

NextExit == ShouldExitTrade

SpecExit == InitExit /\ [][NextExit]_vars

\* C9 as stated: "profit" iff p >= exit_price_profit, "loss" iff
\* p <= exit_price_loss and p < exit_price_profit, and "none" otherwise,
\* whatever the entry_price.
C9_ExitSignalNone ==
    pc = "called" =>
        exit_result =
            IF current_price >= exit_price_profit THEN "profit"
            ELSE IF current_price <= exit_price_loss THEN "loss"
            ELSE "none"

\* C9 amended: "profit" iff p >= exit_price_profit, "loss" iff
\* p <= exit_price_loss and p < exit_price_profit, and the empty string
\* otherwise, whatever the entry_price.
C9_ExitSignal ==
    pc = "called" =>
        /\ exit_result \in {"profit", "loss", ""}
        /\ exit_result = "profit" <=> current_price >= exit_price_profit
        /\ exit_result = "loss" <=>
             (current_price <= exit_price_loss
                /\ current_price < exit_price_profit)

\* Overlapping thresholds: the price is at or above exit_price_profit and at
\* or below exit_price_loss, and the answer is "profit".
C9_Witness ==
    /\ pc = "called"
    /\ current_price >= exit_price_profit
    /\ current_price <= exit_price_loss
    /\ entry_price # current_price
    /\ exit_result = "profit"

=============================================================================
